---- MODULE Spec2Model ----
(***************************************************************************)
(* Model of the computer-use agent: the tool layer (tools/computer.py:     *)
(* ComputerTool.execute, its handlers, describe_action) and the agent loop *)
(* (agent.py: ComputerUseAgent.run and _process_tool_calls).               *)
(*                                                                         *)
(* Python values are encoded as tagged records so that values of different *)
(* Python types can sit in one mapping:                                    *)
(*   None  -> [t |-> "none"]           list of ints -> [t |-> "list", v]   *)
(*   str   -> [t |-> "str", v]         int/float    -> [t |-> "int", v]    *)
(* A keyword-argument mapping (kwargs) is a record whose DOMAIN is the     *)
(* set of keys present.  A Python dict result is a record as well.         *)
(***************************************************************************)
EXTENDS Integers, Sequences, FiniteSets, TLC

(* ------------------------------ bounds --------------------------------- *)
\* Display size used by the checks (Config.display_width / display_height
\* are detected at start-up; any positive size is possible).
DisplayWidth == 2
DisplayHeight == 2
\* Largest iteration budget (Config.max_iterations) explored.
MaxBudget == 2
\* Largest number of content blocks in one model response.
MaxBatch == 2
\* Largest number of content blocks the model returns over one run.
MaxBlocks == 2

(* ------------------------------- state --------------------------------- *)
VARIABLES
    pc,               \* where the program is: idle, loop, dispatch, done, raised, tool...
    max_iterations,   \* Config.max_iterations
    confirm_callback, \* TRUE iff a confirmation callback is installed
    messages,         \* ComputerUseAgent.messages
    iterations,       \* run(): iterations
    final_response,   \* run(): final_response
    response,         \* run(): the response being handled
    idx,              \* _process_tool_calls: position of the for loop in response.content
    tool_results,     \* _process_tool_calls: tool_results
    retval,           \* what run() returned
    signalled,        \* the termination markers run() has printed
    events,           \* history: model requests, gate consultations, execute calls
    blocks,           \* history: content blocks received so far in the run
    toolCall,         \* direct use of ComputerTool: the call made
    toolRet           \* direct use of ComputerTool: what the call did

(* ------------------------- Python value encoding ------------------------ *)
None == [t |-> "none"]
IntList(s) == [t |-> "list", v |-> s]
Str(s) == [t |-> "str", v |-> s]
Num(n) == [t |-> "int", v |-> n]
\* a float, held in tenths: Float(10) is 1.0
Float(tenths) == [t |-> "float", v |-> tenths]

IsNone(val) == val.t = "none"

\* dict.get(key, default) on a keyword mapping
Get(params, key, default) == IF key \in DOMAIN params THEN params[key] ELSE default

\* the value bound to a handler's keyword parameter whose default is None
Arg(params, key) == Get(params, key, None)

\* str(v) / f"{v}" of an encoded value
Fmt(val) ==
    CASE val.t = "none" -> "None"
      [] val.t = "int" -> ToString(val.v)
      [] val.t = "str" -> val.v
      [] val.t = "float" -> ToString(val.v \div 10) \o "." \o ToString(val.v % 10)
      [] val.t = "list" -> "[...]"

(* ------------------------------ strings --------------------------------- *)
UpperChars == "ABCDEFGHIJKLMNOPQRSTUVWXYZ"
LowerChars == "abcdefghijklmnopqrstuvwxyz"

Char(s, i) == SubSeq(s, i, i)

LowerChar(ch) ==
    IF \E i \in 1..Len(UpperChars) : Char(UpperChars, i) = ch
    THEN LET i == CHOOSE j \in 1..Len(UpperChars) : Char(UpperChars, j) = ch
         IN  Char(LowerChars, i)
    ELSE ch

\* str.lower()
RECURSIVE Lower(_)
Lower(s) == IF Len(s) = 0 THEN "" ELSE LowerChar(Char(s, 1)) \o Lower(SubSeq(s, 2, Len(s)))

StartsWith(s, p) == Len(s) >= Len(p) /\ SubSeq(s, 1, Len(p)) = p

\* str.replace(old, new), leftmost non-overlapping occurrences
RECURSIVE Replace(_, _, _)
Replace(s, old, new) ==
    IF Len(s) = 0 THEN ""
    ELSE IF StartsWith(s, old)
         THEN new \o Replace(SubSeq(s, Len(old) + 1, Len(s)), old, new)
         ELSE Char(s, 1) \o Replace(SubSeq(s, 2, Len(s)), old, new)

\* str.split(sep) for a one-character separator: a sequence of strings
RECURSIVE SplitFrom(_, _, _)
SplitFrom(s, sep, cur) ==
    IF Len(s) = 0 THEN <<cur>>
    ELSE IF Char(s, 1) = sep
         THEN <<cur>> \o SplitFrom(SubSeq(s, 2, Len(s)), sep, "")
         ELSE SplitFrom(SubSeq(s, 2, Len(s)), sep, cur \o Char(s, 1))

Split(s, sep) == SplitFrom(s, sep, "")

\* s[:n]
Prefix(s, n) == SubSeq(s, 1, IF Len(s) < n THEN Len(s) ELSE n)

\* a string of n characters
RECURSIVE Repeat(_, _)
Repeat(ch, n) == IF n = 0 THEN "" ELSE ch \o Repeat(ch, n - 1)

(* --------------------------- Device Capability -------------------------- *)
\* One invocation of a device primitive (pyautogui.*, screencapture, sleep).
Prim(name, ints, strs) == [prim |-> name, ints |-> ints, strs |-> strs]

\* The message of an exception raised by a device primitive.
DeviceFaultMsg == "device fault"
\* stderr of a screencapture run that exits non-zero.
CaptureStderr == "capture failed"
\* The payload of a successful capture.
ImageData == "base64-jpeg"

\* How the device answers during one execute call: faultAt = k > 0 makes the
\* k-th primitive invoked raise; captureOk is screencapture's exit status.
DeviceBehaviours == [faultAt : 0..2, captureOk : BOOLEAN]

\* What a handler does: it returns a dict or raises, after having invoked
\* the primitives in calls.
Return(val, calls) == [kind |-> "return", value |-> val, calls |-> calls]
Raise(msg, calls) == [kind |-> "raise", msg |-> msg, calls |-> calls]

\* Invoke the primitives of plan in order; return val if none raises.
Drive(plan, dev, val) ==
    IF dev.faultAt \in 1..Len(plan)
    THEN Raise(DeviceFaultMsg, SubSeq(plan, 1, dev.faultAt))
    ELSE Return(val, plan)

(* ----------------------------- ComputerTool ----------------------------- *)
Err(msg) == [error |-> msg]
Ok(msg) == [result |-> msg]

\* "x, y = coordinate" succeeds
Unpackable(c) == c.t = "list" /\ Len(c.v) = 2
UnpackMsg == "cannot unpack coordinate"

Point(x, y) == "(" \o ToString(x) \o ", " \o ToString(y) \o ")"

\* a variant of _validate_coordinates whose upper bounds are inclusive
_validate_coordinates_inclusive(x, y) ==
    IF ~(0 <= x /\ x <= DisplayWidth)
    THEN [valid |-> FALSE, error |-> "X coordinate is outside display bounds"]
    ELSE IF ~(0 <= y /\ y <= DisplayHeight)
    THEN [valid |-> FALSE, error |-> "Y coordinate is outside display bounds"]
    ELSE [valid |-> TRUE, error |-> "None"]

_validate_coordinates(x, y) ==
    IF ~(0 <= x /\ x < DisplayWidth)
    THEN [valid |-> FALSE,
          error |-> "X coordinate " \o ToString(x) \o " is outside display bounds (0-"
                    \o ToString(DisplayWidth - 1) \o ")"]
    ELSE IF ~(0 <= y /\ y < DisplayHeight)
    THEN [valid |-> FALSE,
          error |-> "Y coordinate " \o ToString(y) \o " is outside display bounds (0-"
                    \o ToString(DisplayHeight - 1) \o ")"]
    ELSE [valid |-> TRUE, error |-> "None"]

_screenshot(params, dev) ==
    LET plan == <<Prim("capture", <<>>, <<>>)>> IN
    IF dev.faultAt = 1 THEN Raise(DeviceFaultMsg, plan)
    ELSE IF ~dev.captureOk
         THEN Return(Err("Screenshot failed: " \o CaptureStderr), plan)
         ELSE Return([type |-> "image", media_type |-> "image/jpeg", data |-> ImageData], plan)

\* The body shared by the five click handlers and _mouse_move: the handlers
\* differ in the name reported, the primitive invoked and the result text.
PointAction(name, prim, button, done, params, dev) ==
    LET coordinate == Arg(params, "coordinate") IN
    IF IsNone(coordinate) THEN Return(Err("coordinate is required for " \o name), <<>>)
    ELSE IF ~Unpackable(coordinate) THEN Raise(UnpackMsg, <<>>)
    ELSE LET x == coordinate.v[1]
             y == coordinate.v[2]
             chk == _validate_coordinates(x, y)
         IN  IF ~chk.valid THEN Return(Err(chk.error), <<>>)
             ELSE Drive(<<Prim(prim, <<x, y>>, button)>>, dev, Ok(done \o Point(x, y)))

_left_click(params, dev) ==
    PointAction("left_click", "click", <<"left">>, "Left clicked at ", params, dev)

_right_click(params, dev) ==
    PointAction("right_click", "click", <<"right">>, "Right clicked at ", params, dev)

_middle_click(params, dev) ==
    PointAction("middle_click", "click", <<"middle">>, "Middle clicked at ", params, dev)

_double_click(params, dev) ==
    PointAction("double_click", "doubleClick", <<>>, "Double clicked at ", params, dev)

_triple_click(params, dev) ==
    PointAction("triple_click", "tripleClick", <<>>, "Triple clicked at ", params, dev)

_mouse_move(params, dev) ==
    PointAction("mouse_move", "moveTo", <<>>, "Moved mouse to ", params, dev)

_left_click_drag(params, dev) ==
    LET start_coordinate == Arg(params, "start_coordinate")
        coordinate == Arg(params, "coordinate")
    IN
    IF IsNone(start_coordinate) \/ IsNone(coordinate)
    THEN Return(Err("start_coordinate and coordinate are required for left_click_drag"), <<>>)
    ELSE IF ~Unpackable(start_coordinate) \/ ~Unpackable(coordinate) THEN Raise(UnpackMsg, <<>>)
    ELSE LET start_x == start_coordinate.v[1]
             start_y == start_coordinate.v[2]
             end_x == coordinate.v[1]
             end_y == coordinate.v[2]
             chk1 == _validate_coordinates(start_x, start_y)
             chk2 == _validate_coordinates(end_x, end_y)
         IN  IF ~chk1.valid THEN Return(Err("Start " \o chk1.error), <<>>)
             ELSE IF ~chk2.valid THEN Return(Err("End " \o chk2.error), <<>>)
             ELSE Drive(<<Prim("moveTo", <<start_x, start_y>>, <<>>),
                          Prim("drag", <<end_x - start_x, end_y - start_y>>, <<>>)>>,
                        dev,
                        Ok("Dragged from " \o Point(start_x, start_y) \o " to " \o Point(end_x, end_y)))

\* a variant of _type_text without the test for a missing text
_type_text_unchecked(params, dev) ==
    LET text == Arg(params, "text") IN
    IF text.t # "str" THEN Raise("text is not a string", <<Prim("write", <<>>, <<>>)>>)
    ELSE Drive(<<Prim("write", <<>>, <<text.v>>)>>, dev, Ok("Typed: " \o text.v))

\* text[:50] and the length test of the result of _type_text
TypedLimit == 50

_type_text(params, dev) ==
    LET text == Arg(params, "text") IN
    IF IsNone(text) THEN Return(Err("text is required for type"), <<>>)
    ELSE IF text.t # "str"
         \* pyautogui.write is invoked with a non-string and raises
         THEN Raise("text is not a string", <<Prim("write", <<>>, <<>>)>>)
    ELSE Drive(<<Prim("write", <<>>, <<text.v>>)>>, dev,
               Ok("Typed: " \o Prefix(text.v, TypedLimit)
                            \o (IF Len(text.v) > TypedLimit THEN "..." ELSE "")))

_key_press(params, dev) ==
    LET key == Arg(params, "key") IN
    IF IsNone(key) THEN Return(Err("key is required for key action"), <<>>)
    ELSE IF key.t # "str" THEN Raise("key has no lower()", <<>>)
    ELSE LET keys == Split(Replace(Lower(key.v), "ctrl", "command"), "+") IN
         Drive(<<IF Len(keys) = 1 THEN Prim("press", <<>>, <<keys[1]>>)
                                  ELSE Prim("hotkey", <<>>, keys)>>,
               dev, Ok("Pressed key: " \o key.v))

\* the default of _scroll's scroll_amount
DefaultScrollAmount == 3

_scroll(params, dev) ==
    LET coordinate == Arg(params, "coordinate")
        scroll_direction == Arg(params, "scroll_direction")
        scroll_amount == Get(params, "scroll_amount", Num(DefaultScrollAmount))
    IN
    IF IsNone(coordinate) THEN Return(Err("coordinate is required for scroll"), <<>>)
    ELSE IF IsNone(scroll_direction)
         THEN Return(Err("scroll_direction is required for scroll"), <<>>)
    ELSE IF ~Unpackable(coordinate) THEN Raise(UnpackMsg, <<>>)
    ELSE LET x == coordinate.v[1]
             y == coordinate.v[2]
             chk == _validate_coordinates(x, y)
             move == Prim("moveTo", <<x, y>>, <<>>)
             dir == Fmt(scroll_direction)
             done == Ok("Scrolled " \o dir \o " by " \o Fmt(scroll_amount) \o " at " \o Point(x, y))
         IN  IF ~chk.valid THEN Return(Err(chk.error), <<>>)
             \* the pointer is moved before the direction is looked at
             ELSE IF dir = "up"
                  THEN Drive(<<move, Prim("scroll", <<scroll_amount.v>>, <<>>)>>, dev, done)
             ELSE IF dir = "down"
                  THEN Drive(<<move, Prim("scroll", <<-scroll_amount.v>>, <<>>)>>, dev, done)
             ELSE IF dir = "left"
                  THEN Drive(<<move, Prim("hscroll", <<-scroll_amount.v>>, <<>>)>>, dev, done)
             ELSE IF dir = "right"
                  THEN Drive(<<move, Prim("hscroll", <<scroll_amount.v>>, <<>>)>>, dev, done)
             ELSE Drive(<<move>>, dev, Err("Invalid scroll direction: " \o dir))

\* the default of _wait's duration, 1.0 seconds
DefaultDuration == Float(10)

_wait(params, dev) ==
    LET duration == Get(params, "duration", DefaultDuration) IN
    Drive(<<Prim("sleep", <<duration.v>>, <<>>)>>, dev,
          Ok("Waited " \o Fmt(duration) \o " seconds"))

\* the keys of execute's action_handlers table
ActionHandlers ==
    {"screenshot", "left_click", "right_click", "middle_click", "double_click",
     "triple_click", "left_click_drag", "mouse_move", "type", "key", "scroll", "wait"}

Handler(action, params, dev) ==
    CASE action = "screenshot" -> _screenshot(params, dev)
      [] action = "left_click" -> _left_click(params, dev)
      [] action = "right_click" -> _right_click(params, dev)
      [] action = "middle_click" -> _middle_click(params, dev)
      [] action = "double_click" -> _double_click(params, dev)
      [] action = "triple_click" -> _triple_click(params, dev)
      [] action = "left_click_drag" -> _left_click_drag(params, dev)
      [] action = "mouse_move" -> _mouse_move(params, dev)
      [] action = "type" -> _type_text(params, dev)
      [] action = "key" -> _key_press(params, dev)
      [] action = "scroll" -> _scroll(params, dev)
      [] action = "wait" -> _wait(params, dev)

\* a variant of execute that indexes the handler table instead of using get
execute_indexing(action, params, dev) ==
    IF action \notin ActionHandlers
    THEN Raise("KeyError: " \o action, <<>>)
    ELSE LET h == Handler(action, params, dev) IN
         IF h.kind = "raise"
         THEN Return(Err("Action '" \o action \o "' failed: " \o h.msg), h.calls)
         ELSE Return(h.value, h.calls)

\* a variant of execute without the try/except around the handler
execute_propagating(action, params, dev) ==
    IF action \notin ActionHandlers
    THEN Return(Err("Unknown action: " \o action), <<>>)
    ELSE Handler(action, params, dev)

\* ComputerTool.execute: what the call does (it returns a dict; a handler's
\* exception is caught and turned into an error dict) and the device
\* primitives invoked meanwhile
execute(action, params, dev) ==
    IF action \notin ActionHandlers
    THEN Return(Err("Unknown action: " \o action), <<>>)
    ELSE LET h == Handler(action, params, dev) IN
         IF h.kind = "raise"
         THEN Return(Err("Action '" \o action \o "' failed: " \o h.msg), h.calls)
         ELSE Return(h.value, h.calls)

\* a variant of describe_action whose answer depends on whether it was
\* called before
describe_action_stateful(action, params) ==
    [kind |-> "return", value |-> action \o (IF pc = "tool" THEN "" ELSE " (again)")]

\* text[:30] and the length test of describe_action's preview
PreviewLimit == 30

\* coord[0], coord[1] succeed
Indexable(c) == c.t = "list" /\ Len(c.v) >= 2

\* ComputerTool.describe_action: the string returned, or the fault raised
describe_action(action, params) ==
    LET coord == Get(params, "coordinate", IntList(<<0, 0>>))
        at(c) == Point(c.v[1], c.v[2])
        pointy(prefix) == IF Indexable(coord) THEN [kind |-> "return", value |-> prefix \o at(coord)]
                          ELSE [kind |-> "raise", msg |-> "coordinate is not subscriptable"]
    IN
    IF action = "screenshot" THEN [kind |-> "return", value |-> "Take a screenshot"]
    ELSE IF action = "left_click" THEN pointy("Left click at ")
    ELSE IF action = "right_click" THEN pointy("Right click at ")
    ELSE IF action = "double_click" THEN pointy("Double click at ")
    ELSE IF action = "mouse_move" THEN pointy("Move mouse to ")
    ELSE IF action = "type"
         THEN LET text == Get(params, "text", Str("")) IN
              IF text.t # "str" THEN [kind |-> "raise", msg |-> "text has no len()"]
              ELSE LET preview == IF Len(text.v) > PreviewLimit
                                  THEN Prefix(text.v, PreviewLimit) \o "..."
                                  ELSE text.v
                   IN  [kind |-> "return", value |-> "Type: '" \o preview \o "'"]
    ELSE IF action = "key"
         THEN [kind |-> "return", value |-> "Press key: " \o Fmt(Get(params, "key", Str("")))]
    ELSE IF action = "scroll"
         THEN [kind |-> "return",
               value |-> "Scroll " \o Fmt(Get(params, "scroll_direction", Str("down")))
                         \o " by " \o Fmt(Get(params, "scroll_amount", Num(DefaultScrollAmount)))]
    ELSE IF action = "wait"
         THEN [kind |-> "return",
               value |-> "Wait " \o Fmt(Get(params, "duration", DefaultDuration)) \o " seconds"]
    ELSE IF action = "left_click_drag"
         THEN LET start == Get(params, "start_coordinate", IntList(<<0, 0>>)) IN
              IF Indexable(start) /\ Indexable(coord)
              THEN [kind |-> "return",
                    value |-> "Drag from " \o at(start) \o " to " \o at(coord)]
              ELSE [kind |-> "raise", msg |-> "coordinate is not subscriptable"]
    ELSE [kind |-> "return", value |-> "Unknown action: " \o action]

(* ------------------------------ the agent ------------------------------- *)
vars == <<pc, max_iterations, confirm_callback, messages, iterations, final_response,
          response, idx, tool_results, retval, signalled, events, blocks, toolCall, toolRet>>

agentVars == <<max_iterations, confirm_callback, messages, iterations, final_response,
               response, idx, tool_results, retval, signalled, events, blocks>>

NoValue == [t |-> "unset"]
Task == "task"
ApiErrorText == "API Error: transport"

\* The string content of the first message, as the one text block it stands for.
TaskTurn == [role |-> "user", content |-> <<[type |-> "text", text |-> Task]>>]

Init ==
    /\ pc = "idle"
    /\ max_iterations \in 0..MaxBudget
    /\ confirm_callback \in BOOLEAN
    /\ messages = <<>>
    /\ iterations = 0
    /\ final_response = ""
    /\ response = NoValue
    /\ idx = 0
    /\ tool_results = <<>>
    /\ retval = NoValue
    /\ signalled = {}
    /\ events = <<>>
    /\ blocks = 0
    /\ toolCall = NoValue
    /\ toolRet = NoValue

(* What the model may answer.  A content block is built from a template. *)
TextTemplate == [kind |-> "text"]
Use(name, input) == [kind |-> "tool_use", name |-> name, input |-> input]

Templates ==
    { TextTemplate,
      Use("computer", [action |-> "screenshot"]),
      Use("computer", [action |-> "left_click", coordinate |-> IntList(<<0, 0>>)]),
      Use("computer", [action |-> "left_click", coordinate |-> IntList(<<DisplayWidth, 0>>)]),
      Use("computer", [action |-> "left_click", coordinate |-> None]),
      Use("computer", [action |-> "frobnicate"]),
      Use("browser", [url |-> Str("x")]) }

ToolUseId(i, p) == "toolu_" \o ToString(i) \o "_" \o ToString(p)

Block(i, p, tpl) ==
    IF tpl.kind = "text"
    THEN [type |-> "text", text |-> "text " \o ToString(i) \o "." \o ToString(p)]
    ELSE [type |-> "tool_use", id |-> ToolUseId(i, p), name |-> tpl.name, input |-> tpl.input]

StopReasons == {"end_turn", "tool_use"}

Min(a, b) == IF a < b THEN a ELSE b

\* The contents the model can give to request number i, at most maxLen blocks.
Contents(i, maxLen) ==
    UNION { { [p \in 1..n |-> Block(i, p, f[p])] : f \in [1..n -> Templates] } : n \in 0..maxLen }

\* the test of the while loop (two variants precede it: off by one, and
\* bounded by the blocks received instead of the budget)
LoopConditionOffByOne == iterations <= max_iterations
LoopConditionIgnoresBudget == iterations <= blocks
LoopCondition == iterations < max_iterations

\* Lines 198-201 of run(): the check after the loop and the return.
AfterLoop(markers, its, text) ==
    /\ signalled' = signalled \cup markers
                    \cup (IF its >= max_iterations THEN {"budget_exhausted"} ELSE {})
    /\ retval' = Str(text)
    /\ pc' = "done"

\* run(task), up to the first test of the while loop
Run ==
    /\ pc = "idle"
    /\ messages' = <<TaskTurn>>
    /\ iterations' = 0
    /\ final_response' = ""
    /\ pc' = "loop"
    /\ UNCHANGED <<max_iterations, confirm_callback, response, idx, tool_results, retval,
                   signalled, events, blocks, toolCall, toolRet>>

\* the while test fails: the loop is left
LoopExit ==
    /\ pc = "loop"
    /\ ~LoopCondition
    /\ AfterLoop({}, iterations, final_response)
    /\ UNCHANGED <<max_iterations, confirm_callback, messages, iterations, final_response,
                   response, idx, tool_results, events, blocks, toolCall, toolRet>>

\* outcome: "error", or the stop reason of the response
RequestEvent(n, outcome) == [ev |-> "request", n |-> n, outcome |-> outcome]

\* a variant of RequestFails that goes on to the next iteration
RequestFailsRetries ==
    /\ pc = "loop"
    /\ LoopCondition
    /\ iterations' = iterations + 1
    /\ events' = Append(events, RequestEvent(iterations + 1, "error"))
    /\ UNCHANGED <<pc, max_iterations, confirm_callback, messages, final_response, response,
                   idx, tool_results, retval, signalled, blocks, toolCall, toolRet>>

\* an iteration whose model request raises: run() returns the error text
RequestFails ==
    /\ pc = "loop"
    /\ LoopCondition
    /\ iterations' = iterations + 1
    /\ events' = Append(events, RequestEvent(iterations + 1, "error"))
    /\ signalled' = signalled \cup {"transport_error"}
    /\ retval' = Str(ApiErrorText)
    /\ pc' = "done"
    /\ UNCHANGED <<max_iterations, confirm_callback, messages, final_response, response, idx,
                   tool_results, blocks, toolCall, toolRet>>

\* a variant of LastText that keeps the first text block of a content
LastTextKeepsFirst(content, sofar) ==
    LET texts == { p \in 1..Len(content) : "text" \in DOMAIN content[p] } IN
    IF texts = {} THEN sofar
    ELSE content[CHOOSE p \in texts : \A q \in texts : p <= q].text

\* the text of the last block of content that has one, else the value so far
RECURSIVE LastText(_, _)
LastText(content, sofar) ==
    IF Len(content) = 0 THEN sofar
    ELSE LastText(Tail(content),
                  IF "text" \in DOMAIN Head(content) THEN Head(content).text ELSE sofar)

\* an iteration up to the call of _process_tool_calls: the request, the
\* assistant message, the text blocks, the end_turn test
Respond ==
    /\ pc = "loop"
    /\ LoopCondition
    /\ \E sr \in StopReasons, c \in Contents(iterations + 1, Min(MaxBatch, MaxBlocks - blocks)) :
         /\ iterations' = iterations + 1
         /\ events' = Append(events, RequestEvent(iterations + 1, sr))
         /\ response' = [stop_reason |-> sr, content |-> c]
         /\ blocks' = blocks + Len(c)
         /\ messages' = Append(messages, [role |-> "assistant", content |-> c])
         /\ final_response' = LastText(c, final_response)
         /\ IF sr = "end_turn"
            THEN /\ AfterLoop({"completed"}, iterations + 1, LastText(c, final_response))
                 /\ UNCHANGED <<idx, tool_results>>
            ELSE /\ pc' = "dispatch"
                 /\ idx' = 1
                 /\ tool_results' = <<>>
                 /\ UNCHANGED <<retval, signalled>>
    /\ UNCHANGED <<max_iterations, confirm_callback, toolCall, toolRet>>

\* a variant of _create_tool_result that loses the identifier
_create_tool_result_no_id(tool_use_id, result) ==
    IF "error" \in DOMAIN result
    THEN [type |-> "tool_result", tool_use_id |-> "", content |-> [text |-> result.error],
          is_error |-> TRUE]
    ELSE [type |-> "tool_result", tool_use_id |-> "", content |-> [text |-> "done"]]

\* ComputerUseAgent._create_tool_result.  The content of a tool_result is
\* held as [text |-> string] or [image |-> source].
_create_tool_result(tool_use_id, result) ==
    IF "error" \in DOMAIN result
    THEN [type |-> "tool_result", tool_use_id |-> tool_use_id,
          content |-> [text |-> result.error], is_error |-> TRUE]
    ELSE IF Get(result, "type", "") = "image"
    THEN [type |-> "tool_result", tool_use_id |-> tool_use_id,
          content |-> [image |-> [type |-> "base64", media_type |-> result.media_type,
                                  data |-> result.data]]]
    ELSE [type |-> "tool_result", tool_use_id |-> tool_use_id,
          content |-> [text |-> Get(result, "result", "Action completed")]]

SkippedText == "Action skipped by user"

\* the block the for loop of _process_tool_calls is at
CurBlock == response.content[idx]
AtBlock == pc = "dispatch" /\ idx <= Len(response.content)
IsToolUse(b) == b.type = "tool_use"

\* tool_input.get("action", "") and the remaining parameters
ActionOf(input) == Get(input, "action", "")
ParamsOf(input) == [k \in DOMAIN input \ {"action"} |-> input[k]]

\* variants of the test below: the screenshot exemption inverted, the
\* exemption missing, the callback not tested
GatedInverted(action) == confirm_callback /\ action = "screenshot"
GatedNoExemption(action) == confirm_callback
GatedWithoutCallback(action) == action # "screenshot"

\* the confirmation callback is consulted for this action
Gated(action) == confirm_callback /\ action # "screenshot"

GateEvent(id, action, desc, decision) ==
    [ev |-> "gate", id |-> id, action |-> action, desc |-> desc, decision |-> decision]
ExecuteEvent(id, action, r) ==
    [ev |-> "execute", id |-> id, action |-> action, calls |-> r.calls,
     out |-> IF r.kind = "return" THEN r.value ELSE [raised |-> r.msg]]

\* a block that is no tool_use is passed over
PassBlock ==
    /\ AtBlock
    /\ ~IsToolUse(CurBlock)
    /\ idx' = idx + 1
    /\ UNCHANGED <<pc, max_iterations, confirm_callback, messages, iterations, final_response,
                   response, tool_results, retval, signalled, events, blocks, toolCall, toolRet>>

\* a tool_use of a tool other than "computer"
UnknownTool ==
    /\ AtBlock
    /\ IsToolUse(CurBlock)
    /\ CurBlock.name # "computer"
    /\ tool_results' = Append(tool_results,
           [type |-> "tool_result", tool_use_id |-> CurBlock.id,
            content |-> [text |-> "Unknown tool: " \o CurBlock.name], is_error |-> TRUE])
    /\ idx' = idx + 1
    /\ UNCHANGED <<pc, max_iterations, confirm_callback, messages, iterations, final_response,
                   response, retval, signalled, events, blocks, toolCall, toolRet>>

IsComputerUse == AtBlock /\ IsToolUse(CurBlock) /\ CurBlock.name = "computer"
CurAction == ActionOf(CurBlock.input)
CurParams == ParamsOf(CurBlock.input)
CurDesc == describe_action(CurAction, CurParams)

\* describe_action raises: nothing in _process_tool_calls or run() catches it
DescribeRaises ==
    /\ IsComputerUse
    /\ CurDesc.kind = "raise"
    /\ pc' = "raised"
    /\ UNCHANGED <<max_iterations, confirm_callback, messages, iterations, final_response,
                   response, idx, tool_results, retval, signalled, events, blocks,
                   toolCall, toolRet>>

\* a variant of GateSkips that executes the action all the same
GateSkipsButExecutes ==
    /\ IsComputerUse
    /\ CurDesc.kind = "return"
    /\ Gated(CurAction)
    /\ \E dev \in DeviceBehaviours :
         LET r == execute(CurAction, CurParams, dev) IN
         /\ events' = events \o <<GateEvent(CurBlock.id, CurAction, CurDesc.value, "skip"),
                                   ExecuteEvent(CurBlock.id, CurAction, r)>>
         /\ tool_results' = Append(tool_results, _create_tool_result(CurBlock.id, r.value))
    /\ idx' = idx + 1
    /\ UNCHANGED <<pc, max_iterations, confirm_callback, messages, iterations, final_response,
                   response, retval, signalled, blocks, toolCall, toolRet>>

\* the callback returns a false value: the skip result is recorded
GateSkips ==
    /\ IsComputerUse
    /\ CurDesc.kind = "return"
    /\ Gated(CurAction)
    /\ events' = Append(events, GateEvent(CurBlock.id, CurAction, CurDesc.value, "skip"))
    /\ tool_results' = Append(tool_results,
           [type |-> "tool_result", tool_use_id |-> CurBlock.id,
            content |-> [text |-> SkippedText]])
    /\ idx' = idx + 1
    /\ UNCHANGED <<pc, max_iterations, confirm_callback, messages, iterations, final_response,
                   response, retval, signalled, blocks, toolCall, toolRet>>

\* the callback raises StopIteration: _process_tool_calls re-raises, its
\* tool_results list is lost, run() prints [User quit] and leaves the loop
GateAborts ==
    /\ IsComputerUse
    /\ CurDesc.kind = "return"
    /\ Gated(CurAction)
    /\ events' = Append(events, GateEvent(CurBlock.id, CurAction, CurDesc.value, "abort"))
    /\ tool_results' = <<>>
    /\ AfterLoop({"aborted"}, iterations, final_response)
    /\ UNCHANGED <<max_iterations, confirm_callback, messages, iterations, final_response,
                   response, idx, blocks, toolCall, toolRet>>

\* the action is executed: the callback returned a true value, or it is not
\* consulted (none installed, or a screenshot)
Executes ==
    /\ IsComputerUse
    /\ CurDesc.kind = "return"
    /\ \E dev \in DeviceBehaviours :
         LET r == execute(CurAction, CurParams, dev)
             asked == IF Gated(CurAction)
                      THEN <<GateEvent(CurBlock.id, CurAction, CurDesc.value, "proceed")>>
                      ELSE <<>>
         IN  /\ events' = events \o asked \o <<ExecuteEvent(CurBlock.id, CurAction, r)>>
             /\ IF r.kind = "raise"
                THEN /\ pc' = "raised"
                     /\ UNCHANGED <<tool_results, idx>>
                ELSE /\ tool_results' = Append(tool_results,
                                               _create_tool_result(CurBlock.id, r.value))
                     /\ idx' = idx + 1
                     /\ pc' = pc
    /\ UNCHANGED <<max_iterations, confirm_callback, messages, iterations, final_response,
                   response, retval, signalled, blocks, toolCall, toolRet>>

\* a variant of DispatchEnd without the test for an empty list of results
DispatchEndAlwaysLoops ==
    /\ pc = "dispatch"
    /\ idx > Len(response.content)
    /\ messages' = Append(messages, [role |-> "user", content |-> tool_results])
    /\ pc' = "loop"
    /\ UNCHANGED <<max_iterations, confirm_callback, iterations, final_response, response,
                   idx, tool_results, retval, signalled, events, blocks, toolCall, toolRet>>

\* a variant of DispatchEnd that drops the results of the last round allowed
DispatchEndDropsLast ==
    /\ pc = "dispatch"
    /\ idx > Len(response.content)
    /\ IF tool_results = <<>> \/ iterations >= max_iterations
       THEN /\ AfterLoop(IF tool_results = <<>> THEN {"no_tool_calls"} ELSE {},
                         iterations, final_response)
            /\ UNCHANGED messages
       ELSE /\ messages' = Append(messages, [role |-> "user", content |-> tool_results])
            /\ pc' = "loop"
            /\ UNCHANGED <<retval, signalled>>
    /\ UNCHANGED <<max_iterations, confirm_callback, iterations, final_response, response,
                   idx, tool_results, events, blocks, toolCall, toolRet>>

\* the for loop is over: _process_tool_calls returns, and run() either leaves
\* the loop (no results) or appends the user message and goes round again
DispatchEnd ==
    /\ pc = "dispatch"
    /\ idx > Len(response.content)
    /\ IF tool_results = <<>>
       THEN /\ AfterLoop({"no_tool_calls"}, iterations, final_response)
            /\ UNCHANGED messages
       ELSE /\ messages' = Append(messages, [role |-> "user", content |-> tool_results])
            /\ pc' = "loop"
            /\ UNCHANGED <<retval, signalled>>
    /\ UNCHANGED <<max_iterations, confirm_callback, iterations, final_response, response,
                   idx, tool_results, events, blocks, toolCall, toolRet>>

Next ==
    \/ Run
    \/ LoopExit
    \/ RequestFails
    \/ Respond
    \/ PassBlock
    \/ UnknownTool
    \/ DescribeRaises
    \/ GateSkips
    \/ GateAborts
    \/ Executes
    \/ DispatchEnd

Spec == Init /\ [][Next]_vars

\* The run as scheduled: run() is one thread of control, and every model
\* request, callback and device call returns, so a step that can be taken is
\* taken.
SpecLive == Init /\ [][Next]_vars /\ WF_vars(Next)

(* --------------------- ComputerTool used on its own --------------------- *)
\* A second specification: one call of execute, or one call of
\* describe_action and the same call repeated, with arguments drawn from
\* ToolInputs.
EmptyParams == [k \in {} |-> None]
Merge(a, b) == [k \in DOMAIN a \cup DOMAIN b |-> IF k \in DOMAIN a THEN a[k] ELSE b[k]]
\* the key absent, or bound to one of vals
Opt(key, vals) == {EmptyParams} \cup { [k \in {key} |-> v] : v \in vals }
Both(A, B) == { Merge(a, b) : a \in A, b \in B }

Pairs == { IntList(<<x, y>>) : x \in -1..DisplayWidth, y \in -1..DisplayHeight }
CoordVals == Pairs \cup {None, IntList(<<>>), IntList(<<0>>)}
FewCoordVals ==
    { None, IntList(<<0>>), IntList(<<0, 0>>), IntList(<<-1, 0>>), IntList(<<DisplayWidth, 0>>),
      IntList(<<0, -1>>), IntList(<<0, DisplayHeight>>),
      IntList(<<DisplayWidth - 1, DisplayHeight - 1>>) }
TextVals ==
    { None, Num(5), Str(""), Str("hi"), Str(Repeat("x", PreviewLimit + 1)),
      Str(Repeat("y", TypedLimit + 1)) }
KeyVals == { None, Str("a"), Str("ctrl+c"), Str("Ctrl+Shift+V") }
DirectionVals == { None, Str("up"), Str("down"), Str("left"), Str("right"), Str("diagonal") }

PointActions ==
    {"left_click", "right_click", "middle_click", "double_click", "triple_click", "mouse_move"}

Call(action, params) == [action |-> action, params |-> params]

ToolInputs ==
    { Call(a, ps) : a \in PointActions, ps \in Opt("coordinate", CoordVals) }
    \cup { Call("left_click_drag", ps) :
             ps \in Both(Opt("start_coordinate", FewCoordVals), Opt("coordinate", CoordVals)) }
    \cup { Call("type", ps) : ps \in Opt("text", TextVals) }
    \cup { Call("key", ps) : ps \in Opt("key", KeyVals) }
    \cup { Call("scroll", ps) :
             ps \in Both(Both(Opt("coordinate", FewCoordVals),
                              Opt("scroll_direction", DirectionVals)),
                         Opt("scroll_amount", {Num(5)})) }
    \cup { Call("wait", ps) : ps \in Opt("duration", {Float(5), Float(20)}) }
    \cup { Call(a, ps) : a \in {"screenshot", "frobnicate", ""},
                         ps \in Opt("coordinate", {IntList(<<0, 0>>)}) }

InitTool ==
    /\ pc = "tool"
    /\ toolCall \in ToolInputs
    /\ toolRet = NoValue
    /\ max_iterations = 0
    /\ confirm_callback = FALSE
    /\ messages = <<>>
    /\ iterations = 0
    /\ final_response = ""
    /\ response = NoValue
    /\ idx = 0
    /\ tool_results = <<>>
    /\ retval = NoValue
    /\ signalled = {}
    /\ events = <<>>
    /\ blocks = 0

\* computer.execute(action, **params)
ToolExecute ==
    /\ pc = "tool"
    /\ \E dev \in DeviceBehaviours :
         toolRet' = execute(toolCall.action, toolCall.params, dev)
    /\ pc' = "executed"
    /\ UNCHANGED <<toolCall, agentVars>>

\* computer.describe_action(action, **params)
ToolDescribe ==
    /\ pc = "tool"
    /\ toolRet' = describe_action(toolCall.action, toolCall.params)
    /\ pc' = "described"
    /\ UNCHANGED <<toolCall, agentVars>>

\* the same call of describe_action made a second time
ToolDescribeAgain ==
    /\ pc = "described"
    /\ toolRet' = describe_action(toolCall.action, toolCall.params)
    /\ pc' = "described_again"
    /\ UNCHANGED <<toolCall, agentVars>>

NextTool ==
    \/ ToolExecute
    \/ ToolDescribe
    \/ ToolDescribeAgain

SpecTool == InitTool /\ [][NextTool]_vars

(* ============================== the claims ============================== *)
RECURSIVE ToolUseIds(_)
\* the identifiers of the tool_use blocks of a content, in order
ToolUseIds(content) ==
    IF Len(content) = 0 THEN <<>>
    ELSE (IF Head(content).type = "tool_use" THEN <<Head(content).id>> ELSE <<>>)
         \o ToolUseIds(Tail(content))

\* the tool_use_id values of a sequence of tool_result blocks, in order
ResultIds(results) == [i \in 1..Len(results) |-> results[i].tool_use_id]

IsPrefix(a, b) == Len(a) <= Len(b) /\ SubSeq(b, 1, Len(a)) = a

EventsOf(kind) == { j \in 1..Len(events) : events[j].ev = kind }
GateDecisions == { events[j].decision : j \in EventsOf("gate") }
Requests == Cardinality(EventsOf("request"))
RequestOutcomes == { events[j].outcome : j \in EventsOf("request") }

\* the assistant turns that are followed by another turn
Answered == { i \in 1..Len(messages) - 1 : messages[i].role = "assistant" }

\* C1: the requester turn that run() appends after a responder turn holds
\* exactly one tool_result per tool_use of that responder turn, with the same
\* identifiers in the same order (so also when the gate proceeded on all of
\* them, or is absent); while a batch is being dispatched the results
\* collected so far are a prefix of the requests, so they never outnumber
\* them; and when run() goes back to request again, that turn has been appended.
C1_ResultsMatchRequests ==
    /\ \A i \in Answered :
         /\ messages[i + 1].role = "user"
         /\ ResultIds(messages[i + 1].content) = ToolUseIds(messages[i].content)
    /\ pc = "dispatch" =>
         /\ IsPrefix(ResultIds(tool_results), ToolUseIds(response.content))
         /\ idx > Len(response.content) =>
              ResultIds(tool_results) = ToolUseIds(response.content)
    /\ (pc = "loop" /\ Len(messages) > 1) =>
         /\ messages[Len(messages)].role = "user"
         /\ Len(messages) - 1 \in Answered

\* C1 witness: a responder turn with two tool invocations, a gate that was
\* asked about both and proceeded, and the turn with their two results.
C1_Witness ==
    /\ confirm_callback
    /\ GateDecisions = {"proceed"}
    /\ Cardinality(EventsOf("gate")) = 2
    /\ \E i \in Answered :
         /\ Len(ToolUseIds(messages[i].content)) = 2
         /\ Len(messages[i + 1].content) = 2

\* the gate decision that ended the run, and the results the claim keeps
AbortedRun == pc = "done" /\ "aborted" \in signalled
CompletedBeforeAbort == ToolUseIds(SubSeq(response.content, 1, idx - 1))

\* C2: when the gate aborts on action k >= 2 of a batch, the run ends as
\* Aborted and the Conversation ends with a requester turn holding the results
\* of the k-1 invocations completed before the abort.
C2_AbortKeepsCompleted ==
    (AbortedRun /\ Len(CompletedBeforeAbort) >= 1) =>
        /\ messages[Len(messages)].role = "user"
        /\ ResultIds(messages[Len(messages)].content) = CompletedBeforeAbort

\* C3: whenever run() is at the head of its loop or has returned, the turns
\* alternate requester/responder from the task turn on, and every responder
\* turn with tool invocations is followed by a requester turn with one result
\* per invocation, matched by identifier.
C3_ConversationInvariant ==
    pc \in {"loop", "done"} =>
        /\ messages[1] = TaskTurn
        /\ \A i \in 1..Len(messages) :
             messages[i].role = (IF i % 2 = 1 THEN "user" ELSE "assistant")
        /\ \A i \in 1..Len(messages) :
             (messages[i].role = "assistant" /\ ToolUseIds(messages[i].content) # <<>>) =>
                 /\ i < Len(messages)
                 /\ ResultIds(messages[i + 1].content) = ToolUseIds(messages[i].content)

\* every response so far asked for a tool and did not signal completion
AlwaysAsksForTool ==
    /\ RequestOutcomes \subseteq {"tool_use"}
    /\ \A i \in 1..Len(messages) :
         messages[i].role = "assistant" => ToolUseIds(messages[i].content) # <<>>

\* C4: with a budget of at least 1, a model that always answers with a tool
\* invocation and a non-completion stop reason, and a gate that never aborts,
\* a run that returns has issued exactly max_iterations requests and signals
\* budget exhaustion and nothing else.
C4_BudgetExhausted ==
    (pc = "done" /\ max_iterations >= 1 /\ AlwaysAsksForTool /\ "abort" \notin GateDecisions) =>
        /\ Requests = max_iterations
        /\ signalled = {"budget_exhausted"}

\* C4 witness: such a run with budget 2.
C4_Witness ==
    /\ pc = "done"
    /\ max_iterations = 2
    /\ AlwaysAsksForTool
    /\ "abort" \notin GateDecisions
    /\ Requests = 2

\* P(block, result) holds of every tool_result block recorded so far (in the
\* Conversation or in the batch being dispatched) and the tool_use it answers
ReportedIn(content, results, P(_, _)) ==
    \A p \in 1..Len(content), q \in 1..Len(results) :
        (content[p].type = "tool_use" /\ content[p].id = results[q].tool_use_id)
            => P(content[p], results[q])
Reported(P(_, _)) ==
    /\ \A i \in Answered : ReportedIn(messages[i].content, messages[i + 1].content, P)
    /\ pc = "dispatch" => ReportedIn(response.content, tool_results, P)

IsComputerAction(b) == b.name = "computer"
IsScreenshot(b) == b.name = "computer" /\ ActionOf(b.input) = "screenshot"
IsSkipResult(r) == r.content = [text |-> "Action skipped by user"] /\ "is_error" \notin DOMAIN r

\* the gate is installed and has returned skip every time it was asked
GateAlwaysSkipped == confirm_callback /\ GateDecisions \subseteq {"skip"}
DeviceInvocations == { j \in EventsOf("execute") : events[j].calls # <<>> }

SkippedOrNotAnAction(b, r) == IsComputerAction(b) => IsSkipResult(r)
SkippedOrScreenshot(b, r) == (IsComputerAction(b) /\ ~IsScreenshot(b)) => IsSkipResult(r)

\* C5 as stated: with a gate that always returns skip, every action requested
\* yields "Action skipped by user" and the device is never invoked.
C5_SkipAll ==
    GateAlwaysSkipped =>
        /\ DeviceInvocations = {}
        /\ Reported(SkippedOrNotAnAction)

\* C5 as amended: with a gate that always returns skip, every action other
\* than screenshot that is reported yields "Action skipped by user", and
\* execute, hence the device, is invoked for screenshot actions only.
C5_SkipAllButScreenshot ==
    GateAlwaysSkipped =>
        /\ \A j \in EventsOf("execute") : events[j].action = "screenshot"
        /\ Reported(SkippedOrScreenshot)

\* C5 witness: a finished run in which the gate skipped an action whose
\* result reached the Conversation and a screenshot was captured.
C5_Witness ==
    /\ GateAlwaysSkipped
    /\ pc = "done"
    /\ DeviceInvocations # {}
    /\ \E i \in Answered : \E q \in 1..Len(messages[i + 1].content) :
         IsSkipResult(messages[i + 1].content[q])

\* C6: with a gate installed, execute (and so the device) is invoked for an
\* action other than screenshot only right after the gate was asked about
\* that same invocation and returned proceed; an invocation the gate skipped
\* is never executed; and a gate abort is the last thing that happens: no
\* gate, execute or model request follows it.
C6_GateBeforeDevice ==
    confirm_callback =>
        \A j \in 1..Len(events) :
            /\ (events[j].ev = "execute" /\ events[j].action # "screenshot") =>
                 /\ j > 1
                 /\ events[j - 1].ev = "gate"
                 /\ events[j - 1].id = events[j].id
                 /\ events[j - 1].decision = "proceed"
            /\ (events[j].ev = "gate" /\ events[j].decision = "skip") =>
                 \A k \in EventsOf("execute") : events[k].id # events[j].id
            /\ (events[j].ev = "gate" /\ events[j].decision = "abort") =>
                 /\ j = Len(events)
                 /\ pc = "done"

\* C6 witness: the gate let one action through, the device was driven for
\* it, and the gate aborted on the next one, which ended the run.
C6_Witness ==
    /\ Len(events) >= 3
    /\ events[Len(events)].ev = "gate"
    /\ events[Len(events)].decision = "abort"
    /\ events[Len(events) - 1].ev = "execute"
    /\ events[Len(events) - 1].action = "left_click"
    /\ events[Len(events) - 1].calls # <<>>
    /\ events[Len(events) - 2].ev = "gate"
    /\ events[Len(events) - 2].decision = "proceed"

\* the execute call made for a tool_use block, and the result recorded for it
ExecutedAndReported(b, results) ==
    \E j \in EventsOf("execute") :
        /\ events[j].id = b.id
        /\ events[j].action = ActionOf(b.input)
        /\ \E q \in 1..Len(results) : results[q] = _create_tool_result(b.id, events[j].out)
\* the blocks of the batch being dispatched that the for loop has passed
Passed == IF pc = "dispatch" THEN 1..(idx - 1) ELSE {}

\* C7: the gate is never asked about a screenshot; every screenshot
\* invocation the dispatch loop comes to is executed (the capture primitive is
\* invoked) and its outcome is the result recorded for it, whatever the gate
\* decides about other actions.
C7_ScreenshotNotGated ==
    /\ \A j \in EventsOf("gate") : events[j].action # "screenshot"
    /\ \A j \in EventsOf("execute") :
         events[j].action = "screenshot" => events[j].calls = <<Prim("capture", <<>>, <<>>)>>
    /\ \A p \in Passed :
         (IsToolUse(response.content[p]) /\ IsScreenshot(response.content[p])) =>
             ExecutedAndReported(response.content[p], tool_results)
    /\ \A i \in Answered : \A p \in 1..Len(messages[i].content) :
         (IsToolUse(messages[i].content[p]) /\ IsScreenshot(messages[i].content[p])) =>
             ExecutedAndReported(messages[i].content[p], messages[i + 1].content)

\* C7 witness: a gate that skipped one action while a screenshot of the same
\* run was executed and reported in the Conversation.
C7_Witness ==
    /\ confirm_callback
    /\ "skip" \in GateDecisions
    /\ \E i \in Answered : \E p \in 1..Len(messages[i].content) :
         /\ IsToolUse(messages[i].content[p])
         /\ IsScreenshot(messages[i].content[p])
         /\ ExecutedAndReported(messages[i].content[p], messages[i + 1].content)

NotSkipped(b, r) == ~IsSkipResult(r)

\* C8: with no confirmation callback the gate is never asked, no result is
\* the skip result, the run never signals Aborted, and every invocation of
\* the computer tool the dispatch loop comes to is passed to execute and its
\* outcome recorded.
C8_NoGateExecutesAll ==
    ~confirm_callback =>
        /\ EventsOf("gate") = {}
        /\ "aborted" \notin signalled
        /\ Reported(NotSkipped)
        /\ \A p \in Passed :
             (IsToolUse(response.content[p]) /\ IsComputerAction(response.content[p])) =>
                 ExecutedAndReported(response.content[p], tool_results)
        /\ \A i \in Answered : \A p \in 1..Len(messages[i].content) :
             (IsToolUse(messages[i].content[p]) /\ IsComputerAction(messages[i].content[p])) =>
                 ExecutedAndReported(messages[i].content[p], messages[i + 1].content)

\* C8 witness: a finished run without a gate in which two actions other
\* than screenshot were executed.
C8_Witness ==
    /\ ~confirm_callback
    /\ pc = "done"
    /\ Cardinality({ j \in EventsOf("execute") : events[j].action # "screenshot" }) = 2

(* Claims about ComputerTool alone, checked under SpecTool. *)
Executed == pc = "executed"
IsError(ret) == ret.kind = "return" /\ "error" \in DOMAIN ret.value
IsPair(c) == c.t = "list" /\ Len(c.v) = 2
InBounds(c) ==
    /\ 0 <= c.v[1] /\ c.v[1] < DisplayWidth
    /\ 0 <= c.v[2] /\ c.v[2] < DisplayHeight

CoordinateActions == PointActions \cup {"scroll", "left_click_drag"}
\* the coordinate pairs a call passes to a coordinate-taking action
GivenPairs(call) ==
    { call.params[k] : k \in { k \in DOMAIN call.params :
          /\ k \in (IF call.action = "left_click_drag"
                    THEN {"start_coordinate", "coordinate"} ELSE {"coordinate"})
          /\ IsPair(call.params[k]) } }

\* C9: a coordinate-taking action given a coordinate pair (for a drag: either
\* endpoint) with x outside [0, display_width) or y outside
\* [0, display_height) returns an error and invokes no device primitive; the
\* validation accepts exactly the pairs inside, so 0 and width-1 pass while -1
\* and width do not; and a click or move at a pair inside does reach the device.
C9_OutOfBoundsRejected ==
    /\ \A x \in -1..DisplayWidth, y \in -1..DisplayHeight :
         _validate_coordinates(x, y).valid
             <=> (x \in 0..(DisplayWidth - 1) /\ y \in 0..(DisplayHeight - 1))
    /\ (Executed /\ toolCall.action \in CoordinateActions) =>
         /\ (\E c \in GivenPairs(toolCall) : ~InBounds(c)) =>
                (IsError(toolRet) /\ toolRet.calls = <<>>)
         /\ (toolCall.action \in PointActions /\ GivenPairs(toolCall) # {}
                /\ \A c \in GivenPairs(toolCall) : InBounds(c)) =>
                toolRet.calls # <<>>

\* C9 witness: a drag from a point inside the display to x = display_width
\* was refused.
C9_Witness ==
    /\ Executed
    /\ toolCall.action = "left_click_drag"
    /\ "start_coordinate" \in DOMAIN toolCall.params
    /\ "coordinate" \in DOMAIN toolCall.params
    /\ toolCall.params.start_coordinate = IntList(<<0, 0>>)
    /\ toolCall.params.coordinate = IntList(<<DisplayWidth, 0>>)
    /\ IsError(toolRet)

\* C10: execute with a name outside the twelve actions returns the error
\* "Unknown action: <name>", invokes no device primitive and does not raise.
C10_UnknownAction ==
    /\ Cardinality(ActionHandlers) = 12
    /\ (Executed /\ toolCall.action \notin ActionHandlers) =>
         /\ toolRet.kind = "return"
         /\ toolRet.value = [error |-> "Unknown action: " \o toolCall.action]
         /\ toolRet.calls = <<>>
    /\ (Executed /\ toolCall.action = "frobnicate") =>
         toolRet.value = [error |-> "Unknown action: frobnicate"]

\* C10 witness: execute("frobnicate") has returned.
C10_Witness ==
    /\ Executed
    /\ toolCall.action = "frobnicate"
    /\ toolRet.kind = "return"

(* Claims about faults, checked under Spec. *)
\* the tool_use block of the Conversation with this identifier
BlockOf(id) ==
    LET i == CHOOSE i \in 1..Len(messages) :
                 \E p \in 1..Len(messages[i].content) :
                     messages[i].content[p].type = "tool_use" /\ messages[i].content[p].id = id
        p == CHOOSE p \in 1..Len(messages[i].content) :
                 messages[i].content[p].type = "tool_use" /\ messages[i].content[p].id = id
    IN  messages[i].content[p]

FailedText(action, msg) == "Action '" \o action \o "' failed: " \o msg

\* what an execute call recorded in events must have produced, given what the
\* handler did under device behaviour dev
HandlerOutcome(e, dev) ==
    LET h == Handler(e.action, ParamsOf(BlockOf(e.id).input), dev) IN
    /\ e.calls = h.calls
    /\ e.out = (IF h.kind = "raise" THEN Err(FailedText(e.action, h.msg)) ELSE h.value)

\* the execute calls whose handler raised
FaultedExecutes ==
    { j \in EventsOf("execute") : \E msg \in {DeviceFaultMsg, UnpackMsg} :
          events[j].out = Err(FailedText(events[j].action, msg)) }

\* the blocks of a content, as a set
BlocksIn(content) == { content[p] : p \in 1..Len(content) }

\* run() was ended by a fault of describe_action on the block at idx
RaisedByDescribe ==
    /\ pc = "raised"
    /\ idx \in 1..Len(response.content)
    /\ IsToolUse(CurBlock)
    /\ CurBlock.name = "computer"
    /\ CurDesc.kind = "raise"
    /\ \A j \in EventsOf("execute") \cup EventsOf("gate") : events[j].id # CurBlock.id

\* C11: every execute call for a known action yields what its handler
\* returned or, when the handler raised (a device primitive failed), the error
\* "Action '<name>' failed: <message>"; run() is never ended by a fault of
\* execute (the only fault that ends it comes from describe_action); and the
\* error is recorded as the invocation's result, after which the dispatch
\* goes on with the next block (the results of a batch on which the gate
\* aborts later are dropped with the batch).
C11_DeviceFaultReported ==
    /\ \A j \in EventsOf("execute") :
         /\ events[j].action \in ActionHandlers =>
              \E dev \in DeviceBehaviours : HandlerOutcome(events[j], dev)
         /\ "raised" \notin DOMAIN events[j].out
    /\ pc = "raised" => RaisedByDescribe
    /\ \A j \in FaultedExecutes :
         LET res == _create_tool_result(events[j].id, events[j].out) IN
         /\ res.is_error
         /\ res.content = [text |-> events[j].out.error]
         /\ \/ \E i \in Answered :
                   /\ BlockOf(events[j].id) \in BlocksIn(messages[i].content)
                   /\ res \in BlocksIn(messages[i + 1].content)
            \/ /\ pc \in {"dispatch", "raised"}
               /\ BlockOf(events[j].id) \in BlocksIn(SubSeq(response.content, 1, idx - 1))
               /\ res \in BlocksIn(tool_results)
            \/ /\ AbortedRun
               /\ BlockOf(events[j].id) \in BlocksIn(SubSeq(response.content, 1, idx - 1))

\* C11 witness: the device failed under a left_click, the error was reported
\* in the next requester turn and the model was asked again.
C11_Witness ==
    /\ Requests = 2
    /\ \E j \in FaultedExecutes :
         /\ events[j].action = "left_click"
         /\ events[j].calls # <<>>
         /\ events[j].out = Err("Action 'left_click' failed: device fault")
         /\ \E q \in 1..Len(messages[3].content) :
              /\ messages[3].content[q].tool_use_id = events[j].id
              /\ messages[3].content[q].content = [text |-> "Action 'left_click' failed: device fault"]

(* Claims about describe_action, checked under SpecTool. *)
Described == pc = "described"

\* C12: describe_action returns a string for every action name and every
\* parameter mapping, malformed ones included (a coordinate that is None, not
\* a pair or too short, a text that is not a string): it never raises.
C12_DescribeNeverFails ==
    Described => (toolRet.kind = "return" /\ toolRet.value \in STRING)

FailedRequests == { j \in EventsOf("request") : events[j].outcome = "error" }

\* C14: a model request that fails is the last thing a run does: no request,
\* gate or execute call follows it, run() has returned the failure text, and
\* the Conversation is what it was before the request: the task turn followed
\* by one responder and one requester turn per earlier request.
C14_TransportFailureEndsRun ==
    \A j \in FailedRequests :
        /\ j = Len(events)
        /\ pc = "done"
        /\ retval = Str(ApiErrorText)
        /\ signalled = {"transport_error"}
        /\ Len(messages) = 2 * Requests - 1
        /\ messages[1] = TaskTurn
        /\ messages[Len(messages)].role = "user"

\* C14 witness: the second request of a run failed after a first round whose
\* results were appended.
C14_Witness ==
    /\ FailedRequests # {}
    /\ Requests = 2
    /\ Len(messages) = 3
    /\ retval = Str(ApiErrorText)

\* the parameters of a computer-tool invocation fail validation: the action
\* is unknown, or a click has no coordinate, one that is no pair, or one
\* outside the display
FailsValidation(b) ==
    /\ IsToolUse(b)
    /\ b.name = "computer"
    /\ LET action == ActionOf(b.input)
           coordinate == Arg(ParamsOf(b.input), "coordinate")
       IN  \/ action \notin ActionHandlers
           \/ /\ action \in PointActions
              /\ (IsNone(coordinate) \/ ~IsPair(coordinate) \/ ~InBounds(coordinate))

\* C15: an invocation whose parameters fail validation never ends the run
\* with a fault; when it is executed its outcome is an error, obtained
\* without a device call; and once the batch is answered that error is the
\* invocation's result in the requester turn.
C15_ValidationNeverFatal ==
    /\ pc = "raised" => ~FailsValidation(CurBlock)
    /\ \A j \in EventsOf("execute") :
         FailsValidation(BlockOf(events[j].id)) =>
             /\ "error" \in DOMAIN events[j].out
             /\ events[j].calls = <<>>
    /\ \A i \in Answered : \A p \in 1..Len(messages[i].content) :
         (FailsValidation(messages[i].content[p])
            /\ \E j \in EventsOf("execute") : events[j].id = messages[i].content[p].id) =>
             \E q \in 1..Len(messages[i + 1].content) :
                 /\ messages[i + 1].content[q].tool_use_id = messages[i].content[p].id
                 /\ "is_error" \in DOMAIN messages[i + 1].content[q]

\* run() has returned in one of the terminal states
Terminal ==
    /\ pc = "done"
    /\ signalled \cap {"completed", "no_tool_calls", "aborted", "transport_error",
                        "budget_exhausted"} # {}

\* C16: when every model request, gate decision and device call returns,
\* every run eventually returns in a terminal state (Completed, no tool
\* calls, Aborted, TransportFailed or BudgetExhausted).
C16_RunTerminates == <>Terminal

\* C17: the number of model requests issued never exceeds max_iterations
\* (it is the value of the iteration counter); with a budget of 0 a run issues
\* no request at all and its Conversation is the task turn alone.
C17_RequestsWithinBudget ==
    /\ Requests <= max_iterations
    /\ Requests = iterations
    /\ \A j \in EventsOf("request") : events[j].n \in 1..max_iterations
    /\ (max_iterations = 0 /\ pc # "idle") =>
         /\ events = <<>>
         /\ messages = <<TaskTurn>>
         /\ pc \in {"loop", "done"}

\* C17 witness: a run with budget 0 has returned.
C17_Witness ==
    /\ max_iterations = 0
    /\ pc = "done"
    /\ Requests = 0
    /\ messages = <<TaskTurn>>

\* the positions <<turn, block>> of the text blocks of the responder turns
TextPositions ==
    { <<i, p>> \in (1..Len(messages)) \X (1..MaxBlocks) :
          /\ messages[i].role = "assistant"
          /\ p <= Len(messages[i].content)
          /\ messages[i].content[p].type = "text" }
Before(a, b) == a[1] < b[1] \/ (a[1] = b[1] /\ a[2] <= b[2])
\* the last text block of any response of the run, "" if there is none
LastRecordedText ==
    IF TextPositions = {} THEN ""
    ELSE LET l == CHOOSE l \in TextPositions : \A a \in TextPositions : Before(a, l)
         IN  messages[l[1]].content[l[2]].text

CompletedRun == pc = "done" /\ "completed" \in signalled

\* C18: a response with stop reason end_turn ends the run as Completed:
\* nothing follows the request (no gate, no execute, no further request, even
\* if the response holds tool invocations), the response is the last turn of
\* the Conversation, and run() returns the last text block of the run.
C18_EndTurnCompletes ==
    /\ \A j \in EventsOf("request") :
         events[j].outcome = "end_turn" => (j = Len(events) /\ CompletedRun)
    /\ CompletedRun =>
         /\ events[Len(events)] = RequestEvent(iterations, "end_turn")
         /\ Len(messages) = 2 * Requests
         /\ messages[Len(messages)] = [role |-> "assistant", content |-> response.content]
         /\ retval = Str(LastRecordedText)

\* C18 witness: with a gate installed, a response with a text block and a
\* left_click signalled end_turn; the run returned the text and the click
\* was neither put to the gate nor executed.
C18_Witness ==
    /\ CompletedRun
    /\ confirm_callback
    /\ Len(response.content) = 2
    /\ response.content[1].type = "text"
    /\ response.content[2].type = "tool_use"
    /\ ActionOf(response.content[2].input) = "left_click"
    /\ retval = Str(response.content[1].text)
    /\ EventsOf("gate") \cup EventsOf("execute") = {}

NoToolCallsRun == pc = "done" /\ "no_tool_calls" \in signalled

\* C19: a response without tool invocations whose stop reason is not
\* end_turn ends the run: run() returns after that request (nothing follows
\* it), the response is the last turn of the Conversation, no requester turn
\* is ever empty, and run() asks the model again only after a response that
\* held a tool invocation.
C19_NoResultsEndsRun ==
    /\ \A i \in 2..Len(messages) : messages[i].role = "user" => messages[i].content # <<>>
    /\ (pc = "loop" /\ Len(messages) > 1) =>
         ToolUseIds(messages[Len(messages) - 1].content) # <<>>
    /\ (pc = "dispatch" /\ idx > Len(response.content) /\ ToolUseIds(response.content) = <<>>) =>
         tool_results = <<>>
    /\ NoToolCallsRun =>
         /\ events[Len(events)] = RequestEvent(iterations, "tool_use")
         /\ ToolUseIds(response.content) = <<>>
         /\ Len(messages) = 2 * Requests
         /\ messages[Len(messages)] = [role |-> "assistant", content |-> response.content]
    /\ (pc = "done" /\ Len(messages) = 2 * Requests /\ Requests >= 1
           /\ response.stop_reason = "tool_use" /\ ToolUseIds(response.content) = <<>>) =>
         NoToolCallsRun

\* C19 witness: with budget left, a response holding only a text block and
\* stop reason tool_use ended the run.
C19_Witness ==
    /\ NoToolCallsRun
    /\ iterations < max_iterations
    /\ Len(response.content) = 1
    /\ response.content[1].type = "text"
    /\ response.stop_reason = "tool_use"
    /\ Len(messages) = 2

\* run() returned because the while test failed
BudgetExhaustedRun == pc = "done" /\ signalled = {"budget_exhausted"}

\* the invocation was dispatched: put to the gate, executed, or refused as
\* naming an unknown tool
Dispatched(b) ==
    \/ b.name # "computer"
    \/ \E j \in EventsOf("gate") \cup EventsOf("execute") : events[j].id = b.id

\* C20: a run that ends by budget exhaustion has made max_iterations
\* requests and completed the last round: every invocation of the last
\* responder turn was dispatched, the Conversation ends with the requester
\* turn holding one result per invocation, and run() returns the last text
\* block of any response ("" if there was none).
C20_BudgetExhaustedCompletesTurn ==
    BudgetExhaustedRun =>
        /\ Requests = max_iterations
        /\ Len(messages) = 2 * max_iterations + 1
        /\ retval = Str(LastRecordedText)
        /\ max_iterations >= 1 =>
             LET last == messages[Len(messages)]
                 asked == messages[Len(messages) - 1]
             IN  /\ last.role = "user"
                 /\ asked = [role |-> "assistant", content |-> response.content]
                 /\ ToolUseIds(asked.content) # <<>>
                 /\ ResultIds(last.content) = ToolUseIds(asked.content)
                 /\ \A b \in BlocksIn(asked.content) : IsToolUse(b) => Dispatched(b)

\* C20 witness: with budget 1, a response with a text block and a left_click
\* was dispatched, the click's result appended, and the text returned.
C20_Witness ==
    /\ BudgetExhaustedRun
    /\ max_iterations = 1
    /\ Len(messages) = 3
    /\ response.content[1].type = "text"
    /\ retval = Str(response.content[1].text)
    /\ \E j \in EventsOf("execute") :
         /\ events[j].action = "left_click"
         /\ messages[3].content = <<_create_tool_result(events[j].id, events[j].out)>>

\* C21: a run that has returned has signalled exactly one termination
\* reason; in particular the budget marker is not printed for a run that
\* ended by natural completion, by no tool calls or by user abort, also when
\* that happened on the iteration whose number equals the budget.
C21_OneTerminationReason ==
    pc = "done" =>
        /\ Cardinality(signalled) = 1
        /\ (signalled \cap {"completed", "no_tool_calls", "aborted"} # {}) =>
               "budget_exhausted" \notin signalled

(* Claims about parameter validation, checked under SpecTool. *)
ScrollDirections == {"up", "down", "left", "right"}

\* a scroll at a pair inside the display with a direction that is none of
\* the four
BadDirectionScroll(call) ==
    /\ call.action = "scroll"
    /\ "coordinate" \in DOMAIN call.params
    /\ IsPair(call.params.coordinate)
    /\ InBounds(call.params.coordinate)
    /\ "scroll_direction" \in DOMAIN call.params
    /\ ~IsNone(call.params.scroll_direction)
    /\ Fmt(call.params.scroll_direction) \notin ScrollDirections

\* C22: a scroll with an in-bounds coordinate and a scroll_direction outside
\* {up, down, left, right} returns an error without any device primitive,
\* the pointer move included, having been invoked.
C22_ScrollValidatesFirst ==
    (Executed /\ BadDirectionScroll(toolCall)) =>
        /\ IsError(toolRet)
        /\ toolRet.calls = <<>>

\* sub occurs in s
Contains(s, sub) ==
    \E i \in 1..(Len(s) - Len(sub) + 1) : SubSeq(s, i, i + Len(sub) - 1) = sub

\* the parameters an action requires
Required(action) ==
    IF action \in PointActions THEN {"coordinate"}
    ELSE IF action = "left_click_drag" THEN {"start_coordinate", "coordinate"}
    ELSE IF action = "type" THEN {"text"}
    ELSE IF action = "key" THEN {"key"}
    ELSE IF action = "scroll" THEN {"coordinate", "scroll_direction"}
    ELSE {}

\* the required parameters a call leaves out (absent, or given as None)
Missing(call) ==
    { f \in Required(call.action) : IsNone(Arg(call.params, f)) }

\* a scroll whose coordinate and direction are valid
GoodScroll(call) ==
    /\ call.action = "scroll"
    /\ Missing(call) = {}
    /\ IsPair(call.params.coordinate)
    /\ InBounds(call.params.coordinate)
    /\ Fmt(call.params.scroll_direction) \in ScrollDirections

\* C23: a call that leaves out a required parameter returns an error that
\* names a missing field, and no device primitive is invoked; wait without a
\* duration sleeps 1.0 seconds and scroll without a scroll_amount scrolls
\* by 3.
C23_MissingParameters ==
    Executed =>
        /\ Missing(toolCall) # {} =>
             /\ IsError(toolRet)
             /\ toolRet.calls = <<>>
             /\ \E f \in Missing(toolCall) : Contains(toolRet.value.error, f)
        /\ (toolCall.action = "wait" /\ "duration" \notin DOMAIN toolCall.params) =>
             /\ toolRet.calls = <<Prim("sleep", <<10>>, <<>>)>>
             /\ ~IsError(toolRet) => toolRet.value = Ok("Waited 1.0 seconds")
        /\ (GoodScroll(toolCall) /\ "scroll_amount" \notin DOMAIN toolCall.params) =>
             /\ toolRet.calls # <<>>
             /\ Len(toolRet.calls) = 2 => toolRet.calls[2].ints \in {<<3>>, <<-3>>}
             /\ ~IsError(toolRet) =>
                  (Len(toolRet.calls) = 2 /\ Contains(toolRet.value.result, " by 3 at "))

\* C23 witness: a scroll given a coordinate but no scroll_direction was
\* refused with the error naming scroll_direction.
C23_Witness ==
    /\ Executed
    /\ toolCall.action = "scroll"
    /\ Missing(toolCall) = {"scroll_direction"}
    /\ toolRet = Return(Err("scroll_direction is required for scroll"), <<>>)

UnknownActionText == "Unknown action: "

\* C24: describe_action and execute agree on the action names: the
\* description is the "Unknown action: <name>" fallback exactly for the names
\* execute has no handler for, so never for one of the twelve actions
\* (middle_click and triple_click included).
C24_DescribeKnowsActions ==
    (pc \in {"described", "described_again"} /\ toolRet.kind = "return") =>
        (StartsWith(toolRet.value, UnknownActionText) <=> toolCall.action \notin ActionHandlers)
====
